---- MODULE Spec2Model ----
(* igcheck: the InstagramClient wrapper (instagram.py), the output        *)
(* functions (output.py) and the command line run (cli.py).               *)
(*                                                                        *)
(* Three specifications share the variables:                              *)
(*   SpecClient  the client's operations called in any order              *)
(*   Spec        one run of main                                          *)
(*   SpecOutput  the output functions applied to arbitrary record lists   *)
(*                                                                        *)
(* Strings that are compared character by character (usernames) are       *)
(* sequences of code points; an Optional value is <<>> (None) or <<v>>.   *)
EXTENDS Integers, Sequences, FiniteSets, TLC

VARIABLES
    _user_id,          \* InstagramClient._user_id: <<>> is None
    session_file,      \* session_path.exists()
    logged_in_once,    \* history: some login() call returned normally
    remote_followers,  \* what client.user_followers returns: pk -> remote user
    remote_following,  \* what client.user_following returns: pk -> remote user
    last,              \* the effects of the last client operation
    pc,                \* position of the run of main
    opts,              \* the command line flags of main
    non_followers,     \* main's non_followers list
    console,           \* the messages printed by main, in order
    files,             \* the export files written by main, in order
    selected,          \* answer of the checkbox prompt: <<>> before / None
    prompts,           \* the prompts answered by the user, in order
    index,             \* how many iterations of the unfollow loop are done
    events,            \* remote unfollow calls and time.sleep calls, in order
    success_count,     \* interactive_unfollow's success_count
    fail_count,        \* interactive_unfollow's fail_count
    exit_code,         \* <<>> while running, <<n>> once the process exited
    users,             \* SpecOutput: the list handed to an output function
    out                \* SpecOutput: what the last output function produced

clientVars == <<_user_id, session_file, logged_in_once, last>>
worldVars == <<remote_followers, remote_following>>
mainVars == <<pc, opts, non_followers, console, files, selected, prompts,
              index, events,
              success_count, fail_count, exit_code>>
outVars == <<users, out>>
vars == <<clientVars, worldVars, mainVars, outVars>>

-----------------------------------------------------------------------------
(* Bounds *)

NumUsers == 3
MaxLen == 3

-----------------------------------------------------------------------------
(* The remote service's accounts *)

Pks == 1..NumUsers

\* "b", "A", "aB", "B", "a", "Ab": handles that differ in case
NamePool ==
    << <<98>>, <<65>>, <<97, 66>>, <<66>>, <<97>>, <<65, 98>> >>

RemoteUserName(pk) == NamePool[((pk - 1) % Len(NamePool)) + 1]

\* a remote record's full_name may be None, empty or a name
RemoteFullName(pk) ==
    CASE pk % 3 = 1 -> <<>>
      [] pk % 3 = 2 -> <<"Full Name">>
      [] OTHER      -> <<"">>

RemoteUser(pk) == [username |-> RemoteUserName(pk), full_name |-> RemoteFullName(pk)]

UsersData(S) == [pk \in S |-> RemoteUser(pk)]

-----------------------------------------------------------------------------
(* instagram.py *)

None == <<>>
Me == "me"

\* full_name=user.full_name or ""
FullNameOrEmpty(fn) == IF fn = None \/ fn = <<"">> THEN "" ELSE fn[1]

ProfileUrl(username) == <<"https://instagram.com/", username>>

UserInfo(pk, user) ==
    [user_id     |-> ToString(pk),
     username    |-> user.username,
     full_name   |-> FullNameOrEmpty(user.full_name),
     profile_url |-> ProfileUrl(user.username)]

\* _convert_users: str(user_id) -> UserInfo
_convert_users(users_data) ==
    LET keys == {ToString(pk) : pk \in DOMAIN users_data}
        PkOf(k) == CHOOSE pk \in DOMAIN users_data : ToString(pk) = k
    IN  [k \in keys |-> UserInfo(PkOf(k), users_data[PkOf(k)])]

NoError == [type |-> "none", msg |-> "none"]
RuntimeError(m) == [type |-> "RuntimeError", msg |-> m]
\* an exception of the wrapped library that the client does not translate:
\* instagrapi's exceptions derive from Exception, not from RuntimeError
ClientError == [type |-> "ClientError", msg |-> "remote"]

\* one call of the wrapped library and how it ended
Remote(call, arg, outcome) == [call |-> call, arg |-> arg, outcome |-> outcome]

\* what one client operation did: the remote calls it issued, the session
\* file reads and writes, the codes its callback returned, and how it ended
Effect(op, args, calls, loads, dumps, cbs, err, result) ==
    [op |-> op, args |-> args, remote_calls |-> calls, loads |-> loads,
     dumps |-> dumps, cb_calls |-> cbs, error |-> err, result |-> result]

NoEffect == Effect("none", <<>>, <<>>, 0, 0, <<>>, NoError, <<>>)

\* what client.login does: it succeeds, or raises one of the four
\* exceptions that login handles
LoginOutcomes ==
    {"ok", "TwoFactorRequired", "ChallengeRequired", "BadPassword", "LoginRequired"}
TwoFactorOutcomes == {"ok", "rejected"}
Codes == {"123456", "000000"}

TwoFactorMessage == "Two-factor authentication required but no callback provided"

ChallengeMessage ==
    "Instagram challenge required. Please log in via the Instagram app to verify your account, then try again."
BadPasswordMessage == "Invalid password. Please check your credentials."
LoginRequiredMessage == "Login failed. Please check your credentials and try again."

\* slip: every failure reports the challenge text
FailureMessage_Same(outcome) == ChallengeMessage

\* except ChallengeRequired / BadPassword / LoginRequired
FailureMessage(outcome) ==
    CASE outcome = "ChallengeRequired" -> ChallengeMessage
      [] outcome = "BadPassword" -> BadPasswordMessage
      [] outcome = "LoginRequired" -> LoginRequiredMessage

\* slip: the session is saved before the code is verified
TwoFactorBranch_DumpFirst(calls, loads, cb, code, tf) ==
    IF ~cb
    THEN Effect("login", <<cb>>, calls, loads, 0, <<>>,
                RuntimeError(TwoFactorMessage), <<>>)
    ELSE IF tf = "ok"
         THEN Effect("login", <<cb>>,
                     calls \o <<Remote("two_factor_login", code, tf)>>,
                     loads, 1, <<code>>, NoError, <<Me>>)
         ELSE Effect("login", <<cb>>,
                     calls \o <<Remote("two_factor_login", code, tf)>>,
                     loads, 1, <<code>>, ClientError, <<>>)

\* except TwoFactorRequired: cb says whether a callback was passed, code is
\* what the callback returns, tf what client.two_factor_login does with it
TwoFactorBranch(calls, loads, cb, code, tf) ==
    IF ~cb
    THEN Effect("login", <<cb>>, calls, loads, 0, <<>>,
                RuntimeError(TwoFactorMessage),
                <<>>)
    ELSE IF tf = "ok"
         THEN Effect("login", <<cb>>,
                     calls \o <<Remote("two_factor_login", code, tf)>>,
                     loads, 1, <<code>>, NoError, <<Me>>)
         ELSE Effect("login", <<cb>>,
                     calls \o <<Remote("two_factor_login", code, tf)>>,
                     loads, 0, <<code>>, ClientError, <<>>)

\* login(username, password, verification_code_callback); exists is
\* session_path.exists() and outcome what client.login does
login(exists, cb, outcome, code, tf) ==
    LET loads == IF exists THEN 1 ELSE 0
        calls == <<Remote("login", "credentials", outcome)>>
    IN  CASE outcome = "ok" ->
               Effect("login", <<cb>>, calls, loads, 1, <<>>, NoError, <<Me>>)
          [] outcome = "TwoFactorRequired" ->
               TwoFactorBranch(calls, loads, cb, code, tf)
          [] OTHER ->
               Effect("login", <<cb>>, calls, loads, 0, <<>>,
                      RuntimeError(FailureMessage(outcome)), <<>>)

NotLoggedIn == RuntimeError("Not logged in. Call login() first.")

\* the user_id property
user_id(uid) == IF uid = None THEN [error |-> NotLoggedIn, value |-> ""]
                ELSE [error |-> NoError, value |-> uid[1]]

FetchOutcomes == {"ok", "ClientError"}

\* self.client.user_followers(self.user_id) and its twin: the argument is
\* evaluated, and may raise, before the remote call is made
get_users(op, call, uid, data, outcome) ==
    IF user_id(uid).error # NoError
    THEN Effect(op, <<>>, <<>>, 0, 0, <<>>, user_id(uid).error, <<>>)
    ELSE IF outcome = "ok"
         THEN Effect(op, <<>>, <<Remote(call, user_id(uid).value, outcome)>>,
                     0, 0, <<>>, NoError, <<_convert_users(data)>>)
         ELSE Effect(op, <<>>, <<Remote(call, user_id(uid).value, outcome)>>,
                     0, 0, <<>>, ClientError, <<>>)

get_followers(uid, data, outcome) ==
    get_users("get_followers", "user_followers", uid, data, outcome)

get_following(uid, data, outcome) ==
    get_users("get_following", "user_following", uid, data, outcome)

\* slip: the follower ids are not subtracted
non_follower_ids_All(followers, following) == DOMAIN following

\* non_follower_ids = following_ids - follower_ids
non_follower_ids(followers, following) == DOMAIN following \ DOMAIN followers

RECURSIVE Perms(_)
Perms(S) ==
    IF S = {} THEN {<<>>}
    ELSE UNION {{<<x>> \o p : p \in Perms(S \ {x})} : x \in S}

\* the orders in which a set of user ids may be iterated
IterationOrders == Perms({ToString(pk) : pk \in Pks})

\* [following[uid] for uid in non_follower_ids]; order is the order in which
\* the set is iterated, which the program does not control
non_follower_list(followers, following, order) ==
    LET In(uid) == uid \in non_follower_ids(followers, following)
        ids == SelectSeq(order, In)
    IN  [i \in 1..Len(ids) |-> following[ids[i]]]

get_non_followers(uid, fdata, gdata, o1, o2, order) ==
    LET f == get_followers(uid, fdata, o1)
        g == get_following(uid, gdata, o2)
    IN  IF f.error # NoError
        THEN [f EXCEPT !.op = "get_non_followers"]
        ELSE IF g.error # NoError
             THEN [g EXCEPT !.op = "get_non_followers",
                            !.remote_calls = f.remote_calls \o g.remote_calls]
             ELSE Effect("get_non_followers", <<>>,
                         f.remote_calls \o g.remote_calls, 0, 0, <<>>, NoError,
                         <<non_follower_list(f.result[1], g.result[1], order)>>)

UnfollowOutcomes == {"true", "false", "ClientError"}

\* unfollow_user: return self.client.user_unfollow(user_id)
unfollow_user(target, outcome) ==
    IF outcome = "ClientError"
    THEN Effect("unfollow_user", <<target>>,
                <<Remote("user_unfollow", target, outcome)>>,
                0, 0, <<>>, ClientError, <<>>)
    ELSE Effect("unfollow_user", <<target>>,
                <<Remote("user_unfollow", target, outcome)>>,
                0, 0, <<>>, NoError, <<outcome = "true">>)

-----------------------------------------------------------------------------
(* The client's operations called in any order *)

Worlds == {UsersData(S) : S \in SUBSET Pks}

MainIdle ==
    /\ pc = "idle"
    /\ opts = [output_json |-> FALSE, output_csv |-> FALSE, output |-> None,
               interactive |-> FALSE]
    /\ non_followers = <<>>
    /\ console = <<>>
    /\ files = <<>>
    /\ selected = None
    /\ prompts = <<>>
    /\ index = 0
    /\ events = <<>>
    /\ success_count = 0
    /\ fail_count = 0
    /\ exit_code = None

OutputIdle ==
    /\ users = <<>>
    /\ out = [by |-> "none", value |-> <<>>]

\* __init__
ClientNew ==
    /\ _user_id = None
    /\ logged_in_once = FALSE
    /\ last = NoEffect

ClientInit ==
    /\ ClientNew
    /\ session_file \in BOOLEAN
    /\ remote_followers \in Worlds
    /\ remote_following \in Worlds
    /\ MainIdle
    /\ OutputIdle

\* the state a client operation leaves behind
Apply(e) ==
    /\ last' = e
    /\ _user_id' = IF e.op = "login" /\ e.error = NoError THEN e.result ELSE _user_id
    /\ session_file' = (session_file \/ e.dumps > 0)
    /\ logged_in_once' = (logged_in_once \/ (e.op = "login" /\ e.error = NoError))

Login ==
    \E cb \in BOOLEAN, outcome \in LoginOutcomes, code \in Codes,
       tf \in TwoFactorOutcomes :
        /\ Apply(login(session_file, cb, outcome, code, tf))
        /\ UNCHANGED <<worldVars, mainVars, outVars>>

GetFollowers ==
    \E outcome \in FetchOutcomes :
        /\ Apply(get_followers(_user_id, remote_followers, outcome))
        /\ UNCHANGED <<worldVars, mainVars, outVars>>

GetFollowing ==
    \E outcome \in FetchOutcomes :
        /\ Apply(get_following(_user_id, remote_following, outcome))
        /\ UNCHANGED <<worldVars, mainVars, outVars>>

GetNonFollowers ==
    \E o1 \in FetchOutcomes, o2 \in FetchOutcomes, order \in IterationOrders :
        /\ Apply(get_non_followers(_user_id, remote_followers,
                                   remote_following, o1, o2, order))
        /\ UNCHANGED <<worldVars, mainVars, outVars>>

UnfollowUser ==
    \E pk \in Pks, outcome \in UnfollowOutcomes :
        /\ Apply(unfollow_user(ToString(pk), outcome))
        /\ UNCHANGED <<worldVars, mainVars, outVars>>

ClientNext ==
    \/ Login
    \/ GetFollowers
    \/ GetFollowing
    \/ GetNonFollowers
    \/ UnfollowUser

SpecClient == ClientInit /\ [][ClientNext]_vars

-----------------------------------------------------------------------------
(* output.py *)

\* str.lower() on code points
Lower(s) == [i \in 1..Len(s) |-> IF s[i] \in 65..90 THEN s[i] + 32 ELSE s[i]]

\* a < b on strings: by code point, a proper prefix first
RECURSIVE StrLess(_, _)
StrLess(a, b) ==
    IF b = <<>> THEN FALSE
    ELSE IF a = <<>> THEN TRUE
    ELSE IF Head(a) # Head(b) THEN Head(a) < Head(b)
    ELSE StrLess(Tail(a), Tail(b))

\* slip: the key is not lower-cased
SortKey_CaseSensitive(u) == u.username

\* key=lambda u: u.username.lower()
SortKey(u) == Lower(u.username)

Front(s) == SubSeq(s, 1, Len(s) - 1)
Last(s) == s[Len(s)]

\* sorted() is stable: u goes behind every element whose key is not greater
RECURSIVE InsertSorted(_, _)
InsertSorted(s, u) ==
    IF s = <<>> THEN <<u>>
    ELSE IF StrLess(SortKey(u), SortKey(Last(s)))
         THEN InsertSorted(Front(s), u) \o <<Last(s)>>
         ELSE s \o <<u>>

RECURSIVE Sorted(_)
Sorted(list) ==
    IF list = <<>> THEN <<>>
    ELSE InsertSorted(Sorted(Front(list)), Last(list))

Msg(text, arg) == [text |-> text, arg |-> arg]

TableRow(u) == <<u.username, u.full_name, u.profile_url>>

print_to_console(list) ==
    IF list = <<>>
    THEN <<Msg("Everyone you follow follows you back!", <<>>)>>
    ELSE <<Msg("Found account(s) that don't follow you back:", <<Len(list)>>),
           Msg("table", [i \in 1..Len(list) |-> TableRow(Sorted(list)[i])]),
           Msg("", <<>>)>>

\* asdict(user): the four fields by name
asdict(u) ==
    [user_id |-> u.user_id, username |-> u.username,
     full_name |-> u.full_name, profile_url |-> u.profile_url]

\* the JSON array written by export_to_json
export_to_json(list) == [i \in 1..Len(list) |-> asdict(Sorted(list)[i])]

fieldnames == <<"username", "full_name", "profile_url", "user_id">>

\* DictWriter.writerow: the values in the order of fieldnames
CsvRow(d) == [i \in 1..Len(fieldnames) |-> d[fieldnames[i]]]

\* the rows written by export_to_csv, the header first
export_to_csv(list) ==
    <<fieldnames>> \o [i \in 1..Len(list) |-> CsvRow(asdict(Sorted(list)[i]))]

-----------------------------------------------------------------------------
(* cli.py: interactive_unfollow *)

Choice(u) ==
    [title |-> IF u.full_name # "" THEN <<"@", u.username, " (", u.full_name, ")">>
               ELSE <<"@", u.username>>,
     value |-> u]

\* choices = [Choice(...) for user in sorted(non_followers, ...)]
Choices(list) == [i \in 1..Len(list) |-> Choice(Sorted(list)[i])]

\* the lists a checkbox prompt can return: the values of the ticked choices,
\* in the order of the choices
RECURSIVE Ticked(_, _)
Ticked(choices, I) ==
    IF choices = <<>> THEN <<>>
    ELSE IF Len(choices) \in I
         THEN Ticked(Front(choices), I) \o <<Last(choices).value>>
         ELSE Ticked(Front(choices), I)

CheckboxAnswers(choices) ==
    {None} \cup {<<Ticked(choices, I)>> : I \in SUBSET (1..Len(choices))}

\* if selected is None / if not selected: what is printed when the prompt's
\* answer ends the function, <<>> when it goes on
SelectionMessage(answer) ==
    IF answer = None THEN <<Msg("Cancelled.", <<>>)>>
    ELSE IF answer[1] = <<>> THEN <<Msg("No accounts selected.", <<>>)>>
    ELSE <<>>

\* slip: the delay follows every call
NeedsDelay_Always(user, sel) == TRUE

\* if user != selected[-1]: time.sleep(2)
NeedsDelay(user, sel) == user # Last(sel)

Sleep == Remote("time.sleep", "2", "ok")

\* one iteration of the loop body for user, given what unfollow_user did
UnfollowMessage(user, e) ==
    IF e.error # NoError THEN Msg("Error unfollowing", <<user.username>>)
    ELSE IF e.result[1] THEN Msg("Unfollowed", <<user.username>>)
    ELSE Msg("Failed to unfollow", <<user.username>>)

\* slip: a call that returns False counts as a success
Succeeded_NoError(e) == e.error = NoError

\* if client.unfollow_user(user.user_id): the call returned True
Succeeded(e) == e.error = NoError /\ e.result[1]

\* the final report
Report(s, f) ==
    <<Msg("Done! Unfollowed account(s).", <<s>>)>> \o
    (IF f > 0 THEN <<Msg("Failed to unfollow account(s).", <<f>>)>> ELSE <<>>)

-----------------------------------------------------------------------------
(* cli.py: one run of main *)

Options ==
    [output_json : BOOLEAN, output_csv : BOOLEAN,
     output : {None, <<"out.txt">>}, interactive : BOOLEAN]

Init ==
    /\ ClientNew
    /\ session_file \in BOOLEAN
    /\ remote_followers \in Worlds
    /\ remote_following \in Worlds
    /\ pc = "login"
    /\ opts \in Options
    /\ non_followers = <<>>
    /\ console = <<>>
    /\ files = <<>>
    /\ selected = None
    /\ prompts = <<>>
    /\ index = 0
    /\ events = <<>>
    /\ success_count = 0
    /\ fail_count = 0
    /\ exit_code = None
    /\ OutputIdle

\* sys.exit(code), or the interpreter ending the run: nothing runs afterwards
Exit(code) ==
    /\ pc' = "exit"
    /\ exit_code' = <<code>>

\* client.login(username, password, verification_code_callback=get_2fa_code)
\* and its except RuntimeError; any other exception leaves main uncaught
MainLogin ==
    /\ pc = "login"
    /\ \E outcome \in LoginOutcomes, code \in Codes, tf \in TwoFactorOutcomes :
        LET e == login(session_file, TRUE, outcome, code, tf)
        IN  /\ Apply(e)
            /\ IF e.error = NoError
               THEN /\ console' = console \o <<Msg("Logged in successfully!", <<>>)>>
                    /\ pc' = "fetch"
                    /\ UNCHANGED exit_code
               ELSE IF e.error.type = "RuntimeError"
               THEN /\ console' = console \o <<Msg("Login failed:", <<e.error.msg>>)>>
                    /\ Exit(1)
               ELSE /\ UNCHANGED console
                    /\ Exit(1)
    /\ UNCHANGED <<worldVars, outVars, opts, non_followers, files, selected,
                   prompts, index, events, success_count, fail_count>>

\* non_followers = client.get_non_followers() and its except Exception
MainFetch ==
    /\ pc = "fetch"
    /\ \E o1 \in FetchOutcomes, o2 \in FetchOutcomes, order \in IterationOrders :
        LET e == get_non_followers(_user_id, remote_followers,
                                   remote_following, o1, o2, order)
        IN  /\ Apply(e)
            /\ IF e.error = NoError
               THEN /\ non_followers' = e.result[1]
                    /\ pc' = "output"
                    /\ UNCHANGED <<console, exit_code>>
               ELSE /\ console' = console \o <<Msg("Error fetching data:", <<e.error.msg>>)>>
                    /\ Exit(1)
                    /\ UNCHANGED non_followers
    /\ UNCHANGED <<worldVars, outVars, opts, files, selected, prompts, index,
                   events, success_count, fail_count>>

OutputPath(default) == IF opts.output # None THEN opts.output[1] ELSE default

JsonWrites ==
    IF opts.output_json
    THEN <<[path |-> OutputPath("non-followers.json"), format |-> "json",
            content |-> export_to_json(non_followers)]>>
    ELSE <<>>

CsvWrites ==
    IF opts.output_csv
    THEN <<[path |-> OutputPath("non-followers.csv"), format |-> "csv",
            content |-> export_to_csv(non_followers)]>>
    ELSE <<>>

Exported(writes) ==
    [i \in 1..Len(writes) |-> Msg("Results exported to", <<writes[i].path>>)]

\* the exports, print_to_console and interactive_unfollow up to its prompt
MainOutput ==
    /\ pc = "output"
    /\ files' = files \o JsonWrites \o CsvWrites
    /\ LET printed == console \o Exported(JsonWrites) \o Exported(CsvWrites)
                        \o print_to_console(non_followers)
       IN  IF opts.interactive /\ non_followers # <<>>
           THEN /\ console' = printed \o <<Msg("Select accounts to unfollow", <<>>)>>
                /\ pc' = "select"
                /\ UNCHANGED exit_code
           ELSE /\ console' = printed
                /\ Exit(0)
    /\ UNCHANGED <<clientVars, worldVars, outVars, opts, non_followers,
                   selected, prompts, index, events, success_count, fail_count>>

Prompt(prompt, answer) == [prompt |-> prompt, answer |-> answer]

CheckboxAnswerKind(answer) ==
    IF answer = None THEN "None" ELSE IF answer[1] = <<>> THEN "empty" ELSE "list"

\* selected = questionary.checkbox(...).ask() and the two early returns
MainSelect ==
    /\ pc = "select"
    /\ \E answer \in CheckboxAnswers(Choices(non_followers)) :
        /\ selected' = answer
        /\ prompts' = prompts \o <<Prompt("checkbox", CheckboxAnswerKind(answer))>>
        /\ IF SelectionMessage(answer) # <<>>
           THEN /\ console' = console \o SelectionMessage(answer)
                /\ Exit(0)
           ELSE /\ console' = console
                      \o <<Msg("You selected account(s) to unfollow:", <<Len(answer[1])>>)>>
                      \o [i \in 1..Len(answer[1]) |-> Msg("-", <<answer[1][i].username>>)]
                /\ pc' = "confirm"
                /\ UNCHANGED exit_code
    /\ UNCHANGED <<clientVars, worldVars, outVars, opts, non_followers, files,
                   index, events, success_count, fail_count>>

\* questionary.confirm(...).ask(): True, False, or None when interrupted
ConfirmAnswers == {"True", "False", "None"}

\* slip: only an explicit False cancels
Confirmed_NotFalse(answer) == answer # "False"

\* if not questionary.confirm(...).ask(): only True goes on
Confirmed(answer) == answer = "True"

MainConfirm ==
    /\ pc = "confirm"
    /\ \E answer \in ConfirmAnswers :
        /\ prompts' = prompts \o <<Prompt("confirm", answer)>>
        /\ IF Confirmed(answer)
           THEN /\ console' = console \o <<Msg("", <<>>)>>
                /\ pc' = "unfollow"
                /\ UNCHANGED exit_code
           ELSE /\ console' = console \o <<Msg("Cancelled.", <<>>)>>
                /\ Exit(0)
    /\ UNCHANGED <<clientVars, worldVars, outVars, opts, non_followers, files,
                   selected, index, events, success_count, fail_count>>

\* one iteration of for user in selected
MainUnfollow ==
    /\ pc = "unfollow"
    /\ index < Len(selected[1])
    /\ \E outcome \in UnfollowOutcomes :
        LET user == selected[1][index + 1]
            e == unfollow_user(user.user_id, outcome)
        IN  /\ Apply(e)
            /\ console' = console \o <<UnfollowMessage(user, e)>>
            /\ success_count' = IF Succeeded(e) THEN success_count + 1 ELSE success_count
            /\ fail_count' = IF Succeeded(e) THEN fail_count ELSE fail_count + 1
            /\ events' = events \o e.remote_calls
                           \o (IF NeedsDelay(user, selected[1]) THEN <<Sleep>> ELSE <<>>)
    /\ index' = index + 1
    /\ UNCHANGED <<worldVars, outVars, pc, opts, non_followers, files, selected,
                   prompts, exit_code>>

\* after the loop: the report, and main returns
MainReport ==
    /\ pc = "unfollow"
    /\ index = Len(selected[1])
    /\ console' = console \o Report(success_count, fail_count)
    /\ Exit(0)
    /\ UNCHANGED <<clientVars, worldVars, outVars, opts, non_followers, files,
                   selected, prompts, index, events, success_count, fail_count>>

Next ==
    \/ MainLogin
    \/ MainFetch
    \/ MainOutput
    \/ MainSelect
    \/ MainConfirm
    \/ MainUnfollow
    \/ MainReport

Spec == Init /\ [][Next]_vars

-----------------------------------------------------------------------------
(* The output functions on arbitrary lists of records *)

\* the records the lists are drawn from: two ids under every handle
OutputRecords ==
    {UserInfo(pk, [username |-> NamePool[n], full_name |-> RemoteFullName(pk)]) :
        pk \in 1..2, n \in 1..Len(NamePool)}

RecordLists == UNION {[1..n -> OutputRecords] : n \in 0..MaxLen}

OutputInit ==
    /\ ClientNew
    /\ session_file = FALSE
    /\ remote_followers = UsersData({})
    /\ remote_following = UsersData({})
    /\ MainIdle
    /\ users \in RecordLists
    /\ out = [by |-> "none", value |-> <<>>]

PrintToConsole ==
    /\ out' = [by |-> "print_to_console", value |-> print_to_console(users)]
    /\ UNCHANGED <<clientVars, worldVars, mainVars, users>>

ExportToJson ==
    /\ out' = [by |-> "export_to_json", value |-> export_to_json(users)]
    /\ UNCHANGED <<clientVars, worldVars, mainVars, users>>

ExportToCsv ==
    /\ out' = [by |-> "export_to_csv", value |-> export_to_csv(users)]
    /\ UNCHANGED <<clientVars, worldVars, mainVars, users>>

\* interactive_unfollow up to the prompt: nothing is built for an empty list
BuildChoices ==
    /\ users # <<>>
    /\ out' = [by |-> "choices", value |-> Choices(users)]
    /\ UNCHANGED <<clientVars, worldVars, mainVars, users>>

OutputNext ==
    \/ PrintToConsole
    \/ ExportToJson
    \/ ExportToCsv
    \/ BuildChoices

SpecOutput == OutputInit /\ [][OutputNext]_vars

-----------------------------------------------------------------------------
(* Claims about the client (SpecClient) *)

Count(seq, Test(_)) == Cardinality({i \in 1..Len(seq) : Test(seq[i])})

\* C1: get_non_followers returns exactly the records of following whose id is
\* no key of followers, each once; nothing when following is empty or the keys
\* coincide, all of following when followers is empty
C1_NonFollowersExact ==
    (last.op = "get_non_followers" /\ last.error = NoError) =>
        LET followers == _convert_users(remote_followers)
            following == _convert_users(remote_following)
            L == last.result[1]
        IN  /\ \A uid \in DOMAIN following :
                 uid \notin DOMAIN followers =>
                    Cardinality({i \in 1..Len(L) : L[i] = following[uid]}) = 1
            /\ \A i \in 1..Len(L) : L[i].user_id \notin DOMAIN followers
            /\ \A i \in 1..Len(L) : \E uid \in DOMAIN following : L[i] = following[uid]
            /\ (DOMAIN following = {} => L = <<>>)
            /\ (DOMAIN following = DOMAIN followers => L = <<>>)
            /\ (DOMAIN followers = {} => Len(L) = Cardinality(DOMAIN following))

C1_Witness ==
    /\ last.op = "get_non_followers"
    /\ last.error = NoError
    /\ Len(last.result[1]) = 2
    /\ DOMAIN remote_followers # {}
    /\ DOMAIN remote_followers \subseteq DOMAIN remote_following

\* C2: before any login has completed, get_followers, get_following and
\* unfollow_user each fail with the not-logged-in error and issue no remote call
C2_GuardedBeforeRemote ==
    (~logged_in_once /\ last.op \in {"get_followers", "get_following", "unfollow_user"}) =>
        /\ last.error = NotLoggedIn
        /\ last.remote_calls = <<>>

\* authentication succeeded: client.login succeeded, or it asked for a code
\* and client.two_factor_login accepted the code the callback returned
AuthSucceeded(e) ==
    \/ e.remote_calls[1].outcome = "ok"
    \/ /\ e.remote_calls[1].outcome = "TwoFactorRequired"
       /\ Len(e.remote_calls) = 2
       /\ e.remote_calls[2].outcome = "ok"

\* C3: a call of login writes the session file at most once, and exactly when
\* authentication succeeded
C3_SessionWrittenIffSuccess ==
    last.op = "login" =>
        /\ last.dumps \in {0, 1}
        /\ (last.dumps = 1) <=> AuthSucceeded(last)
        /\ (last.dumps = 1) <=> (last.error = NoError)
        /\ (last.dumps = 1) => session_file

C3_Witness ==
    /\ last.op = "login"
    /\ last.remote_calls[1].outcome = "TwoFactorRequired"
    /\ Len(last.remote_calls) = 2
    /\ last.remote_calls[2].outcome = "ok"
    /\ last.loads = 0
    /\ last.dumps = 1
    /\ session_file

\* C4: success authenticates; a code request calls the callback once and
\* submits its code, or fails with the configuration error when there is no
\* callback; a challenge and a bad password fail with different errors; the
\* callback is called for a code request only
C4_LoginOutcomesDistinct ==
    last.op = "login" =>
        LET o == last.remote_calls[1].outcome
            cb == last.args[1]
        IN  /\ o = "ok" => (last.error = NoError /\ _user_id # None)
            /\ (o = "TwoFactorRequired" /\ cb) =>
                  /\ Len(last.cb_calls) = 1
                  /\ Len(last.remote_calls) = 2
                  /\ last.remote_calls[2].call = "two_factor_login"
                  /\ last.remote_calls[2].arg = last.cb_calls[1]
            /\ (o = "TwoFactorRequired" /\ ~cb) =>
                  /\ last.error = RuntimeError(TwoFactorMessage)
                  /\ Len(last.remote_calls) = 1
            /\ o = "ChallengeRequired" => last.error = RuntimeError(ChallengeMessage)
            /\ o = "BadPassword" =>
                  /\ last.error.type = "RuntimeError"
                  /\ last.error.msg \notin {"none", ChallengeMessage, TwoFactorMessage}
            /\ o # "TwoFactorRequired" => last.cb_calls = <<>>

C4_Witness ==
    /\ last.op = "login"
    /\ last.remote_calls[1].outcome = "TwoFactorRequired"
    /\ last.args[1]
    /\ last.cb_calls = <<"000000">>
    /\ last.error = NoError
    /\ _user_id # None

-----------------------------------------------------------------------------
(* Claims about the run of main (Spec) *)

IsUnfollow(ev) == ev.call = "user_unfollow"
IsSleep(ev) == ev.call = "time.sleep"
IsTrue(ev) == IsUnfollow(ev) /\ ev.outcome = "true"
IsNotTrue(ev) == IsUnfollow(ev) /\ ev.outcome \in {"false", "ClientError"}

UnfollowCalls == SelectSeq(events, IsUnfollow)

ConfirmedRun == prompts = <<Prompt("checkbox", "list"), Prompt("confirm", "True")>>

LoopDone == ConfirmedRun /\ pc = "exit"

\* C5: with n >= 1 confirmed records there are exactly n-1 delays, one
\* between each two consecutive unfollow calls, none before the first call
\* and none after the last, whatever the calls return
C5_DelaysBetweenCalls ==
    ConfirmedRun =>
        LET n == Len(selected[1])
        IN  /\ \A i \in 1..Len(events) :
                 IF i % 2 = 1 THEN IsUnfollow(events[i]) ELSE IsSleep(events[i])
            /\ Count(events, IsSleep) = IF index < n THEN index ELSE n - 1
            /\ LoopDone =>
                  /\ Count(events, IsUnfollow) = n
                  /\ Count(events, IsSleep) = n - 1
                  /\ IsUnfollow(events[Len(events)])

C5_Witness ==
    /\ LoopDone
    /\ Len(selected[1]) = 3
    /\ Count(events, IsSleep) = 2
    /\ events[1].outcome = "ClientError"
    /\ events[3].outcome = "false"
    /\ events[5].outcome = "ClientError"

\* C6: after the confirmation every selected record gets exactly one unfollow
\* call, in the order of the selection, whatever the earlier calls did; the
\* reported counts are the calls that returned true and the calls that
\* returned false or raised, and they add up to the selection
C6_SequentialIsolatedTally ==
    ConfirmedRun =>
        LET n == Len(selected[1])
            calls == UnfollowCalls
        IN  /\ Len(calls) = index
            /\ index <= n
            /\ \A i \in 1..Len(calls) : calls[i].arg = selected[1][i].user_id
            /\ success_count = Count(events, IsTrue)
            /\ fail_count = Count(events, IsNotTrue)
            /\ success_count + fail_count = index
            /\ LoopDone =>
                  /\ index = n
                  /\ \E k \in 1..Len(console) :
                        /\ console[k].text = "Done! Unfollowed account(s)."
                        /\ console[k].arg = <<Count(events, IsTrue)>>
                        /\ k = Len(console) - (IF Count(events, IsNotTrue) > 0 THEN 1 ELSE 0)
                  /\ Count(events, IsNotTrue) > 0 =>
                        /\ console[Len(console)].text = "Failed to unfollow account(s)."
                        /\ console[Len(console)].arg = <<Count(events, IsNotTrue)>>

C6_Witness ==
    /\ LoopDone
    /\ Len(selected[1]) = 3
    /\ success_count = 2
    /\ fail_count = 1
    /\ UnfollowCalls[1].outcome = "false"

\* C7: a cancelled selection, an empty selection and a declined confirmation
\* make no unfollow call and no delay; a cancellation prints "Cancelled." and
\* an empty selection prints "No accounts selected."
C7_CancelHasNoEffect ==
    /\ (prompts # <<>> /\ ~ConfirmedRun /\ pc = "exit") =>
          /\ events = <<>>
          /\ index = 0
          /\ last.op # "unfollow_user"
          /\ success_count = 0 /\ fail_count = 0
    /\ (prompts = <<Prompt("checkbox", "None")>> /\ pc = "exit") =>
          console[Len(console)].text = "Cancelled."
    /\ (prompts = <<Prompt("checkbox", "empty")>> /\ pc = "exit") =>
          console[Len(console)].text = "No accounts selected."
    /\ (Len(prompts) = 2 /\ ~ConfirmedRun /\ pc = "exit") =>
          console[Len(console)].text = "Cancelled."
    /\ (prompts # <<>> /\ ~ConfirmedRun) => pc = "exit" \/ pc = "confirm"

C7_Witness ==
    /\ prompts = <<Prompt("checkbox", "list"), Prompt("confirm", "False")>>
    /\ Len(selected[1]) = 2
    /\ pc = "exit"
    /\ events = <<>>

HasText(t) == \E k \in 1..Len(console) : console[k].text = t

LoginFailed == last.op = "login" /\ last.error # NoError
FetchFailed == last.op = "get_non_followers" /\ last.error # NoError

\* C8: a failed login ends the run with a login-failure message and a
\* non-zero exit, a failed fetch ends it with a non-zero exit, and in both
\* cases nothing is exported, no result is printed and nothing is unfollowed
C8_FailureAborts ==
    (pc = "exit" /\ (LoginFailed \/ FetchFailed)) =>
        /\ exit_code # None /\ exit_code[1] # 0
        /\ LoginFailed => HasText("Login failed:")
        /\ files = <<>>
        /\ events = <<>>
        /\ ~HasText("table")
        /\ ~HasText("Everyone you follow follows you back!")

\* C10: every unfollow call targets a key of following that is no key of
\* followers, and is made only after login and fetch succeeded and the user
\* selected the record and confirmed
C10_OnlyNonFollowersUnfollowed ==
    \A i \in 1..Len(events) :
        IsUnfollow(events[i]) =>
            /\ events[i].arg \in {ToString(pk) : pk \in DOMAIN remote_following}
            /\ events[i].arg \notin {ToString(pk) : pk \in DOMAIN remote_followers}
            /\ logged_in_once /\ _user_id # None
            /\ console[1].text = "Logged in successfully!"
            /\ ~HasText("Error fetching data:")
            /\ opts.interactive
            /\ ConfirmedRun
            /\ \E j \in 1..Len(selected[1]) : selected[1][j].user_id = events[i].arg

C10_Witness ==
    /\ pc = "exit"
    /\ Count(events, IsUnfollow) = 2
    /\ DOMAIN remote_followers \cap DOMAIN remote_following # {}
    /\ Len(non_followers) = 2

-----------------------------------------------------------------------------
(* Claims about the output functions (SpecOutput) *)

\* the lower-cased keys never descend
Ascending(keys) ==
    \A i, j \in 1..Len(keys) : i < j => ~StrLess(Lower(keys[j]), Lower(keys[i]))

\* as many copies of every element on both sides
SameBag(a, b) ==
    /\ Len(a) = Len(b)
    /\ \A i \in 1..Len(a) :
          Cardinality({k \in 1..Len(a) : a[k] = a[i]})
            = Cardinality({k \in 1..Len(b) : b[k] = a[i]})

AllFields == {"user_id", "username", "full_name", "profile_url"}

\* C9: the console table, the JSON export, the CSV export and the selection
\* list each present a permutation of the input records in ascending order of
\* the lower-cased username; JSON and CSV carry all four fields
C9_OutputsSortedPermutation ==
    /\ out.by = "print_to_console" =>
          IF users = <<>>
          THEN out.value = <<Msg("Everyone you follow follows you back!", <<>>)>>
          ELSE LET rows == out.value[2].arg
               IN  /\ SameBag([i \in 1..Len(users) |->
                                <<users[i].username, users[i].full_name,
                                  users[i].profile_url>>], rows)
                   /\ Ascending([i \in 1..Len(rows) |-> rows[i][1]])
    /\ out.by = "export_to_json" =>
          /\ SameBag(users, out.value)
          /\ \A i \in 1..Len(out.value) : DOMAIN out.value[i] = AllFields
          /\ Ascending([i \in 1..Len(out.value) |-> out.value[i].username])
    /\ out.by = "export_to_csv" =>
          LET rows == Tail(out.value)
          IN  /\ out.value[1] = <<"username", "full_name", "profile_url", "user_id">>
              /\ SameBag([i \in 1..Len(users) |->
                           <<users[i].username, users[i].full_name,
                             users[i].profile_url, users[i].user_id>>], rows)
              /\ Ascending([i \in 1..Len(rows) |-> rows[i][1]])
    /\ out.by = "choices" =>
          /\ SameBag(users, [i \in 1..Len(out.value) |-> out.value[i].value])
          /\ Ascending([i \in 1..Len(out.value) |-> out.value[i].value.username])

C9_Witness ==
    /\ out.by = "export_to_csv"
    /\ Len(users) = 3
    /\ users[1].username = <<98>>
    /\ users[2].username = <<66>>
    /\ users[3].username = <<97>>
    /\ out.value[2][1] = <<97>>
    /\ out.value[3][1] = <<98>>
    /\ out.value[4][1] = <<66>>

====
